---- MODULE Spec2Model ----
(***************************************************************************)
(* A model of pokedex-team: the build-time generator                       *)
(* (generate-team-data.js) and the browser-side loader/renderer            *)
(* (script.js).                                                            *)
(*                                                                         *)
(* Strings are sequences of characters.  A character is a TLA+ string; a   *)
(* few characters that are awkward to type are written as tokens:          *)
(*   "LF" line feed, "CR" carriage return, "FF" form feed,                 *)
(*   "E_ACUTE" the precomposed letter e-acute (U+00E9),                    *)
(*   "ACUTE" the combining acute accent (U+0301),                          *)
(*   "FEMALE" the female sign (U+2640).                                    *)
(***************************************************************************)
EXTENDS Integers, Sequences, FiniteSets, TLC

(***************************************************************************)
(* Character classes and string helpers (JavaScript String methods)        *)
(***************************************************************************)
Whitespace == {" ", "LF", "CR", "FF"}

LowerAlnum == {"a", "b", "e", "s", "h", "1", "2"}

ToLowerChar(c) ==
    CASE c = "A" -> "a"
      [] c = "B" -> "b"
      [] c = "E" -> "e"
      [] c = "S" -> "s"
      [] c = "H" -> "h"
      [] c = "E_ACUTE_UPPER" -> "E_ACUTE"
      [] OTHER -> c

ToUpperChar(c) ==
    CASE c = "a" -> "A"
      [] c = "b" -> "B"
      [] c = "e" -> "E"
      [] c = "s" -> "S"
      [] c = "h" -> "H"
      [] c = "E_ACUTE" -> "E_ACUTE_UPPER"
      [] OTHER -> c

\* String.prototype.normalize("NFD") on one character
NfdChar(c) ==
    CASE c = "E_ACUTE" -> <<"e", "ACUTE">>
      [] c = "E_ACUTE_UPPER" -> <<"E", "ACUTE">>
      [] OTHER -> <<c>>

\* Body applied to the value of e, which is computed once
Strict(Body(_), e) == CHOOSE r \in {Body(x) : x \in {e}} : TRUE

\* a sequence given as a function, as a tuple
AsTuple(f) == SubSeq(f, 1, Len(f))

RECURSIVE FlatMap(_, _)
FlatMap(Op(_), str) ==
    Strict(LAMBDA s : IF s = <<>> THEN <<>> ELSE Op(Head(s)) \o FlatMap(Op, Tail(s)),
           str)

MapChars(Op(_), str) ==
    Strict(LAMBDA s : AsTuple([i \in 1..Len(s) |-> Op(s[i])]), str)

\* s without its leading characters of S
DropWhileIn(str, S) ==
    Strict(LAMBDA s :
             LET keep == {i \in 1..Len(s) : s[i] \notin S}
             IN  IF keep = {} THEN <<>>
                 ELSE SubSeq(s, CHOOSE i \in keep : \A j \in keep : i <= j, Len(s)),
           str)

\* s without its trailing characters of S
DropLastWhileIn(str, S) ==
    Strict(LAMBDA s :
             LET keep == {i \in 1..Len(s) : s[i] \notin S}
             IN  IF keep = {} THEN <<>>
                 ELSE SubSeq(s, 1, CHOOSE i \in keep : \A j \in keep : i >= j),
           str)

\* String.prototype.trim
Trim(s) == DropLastWhileIn(DropWhileIn(s, Whitespace), Whitespace)

\* the position of the k-th element of the set `at` of positions; 0 and
\* n + 1 fence the ends
KthPosition(at, k, n) ==
    IF k = 0 THEN 0
    ELSE IF k > Cardinality(at) THEN n + 1
    ELSE CHOOSE i \in at : Cardinality({j \in at : j < i}) = k - 1

\* String.prototype.split(sep) for a one-character separator: the pieces
\* between consecutive separators, empty pieces included
SplitChar(str, sep) ==
    Strict(LAMBDA s :
             Strict(LAMBDA at :
                      AsTuple([k \in 1..(Cardinality(at) + 1) |->
                                  SubSeq(s, KthPosition(at, k - 1, Len(s)) + 1,
                                            KthPosition(at, k, Len(s)) - 1)]),
                    {i \in 1..Len(s) : s[i] = sep}),
           str)

\* replace(/X+/g, r) where X matches the characters for which InRun holds:
\* every maximal run of such characters becomes the one character r
RECURSIVE ReplaceRunsOf(_, _, _)
ReplaceRunsOf(InRun(_), str, r) ==
    Strict(LAMBDA s :
             IF s = <<>> THEN <<>>
             ELSE IF InRun(Head(s))
             THEN LET rest == {i \in 1..Len(s) : ~InRun(s[i])}
                  IN  <<r>> \o (IF rest = {} THEN <<>>
                                ELSE ReplaceRunsOf(InRun,
                                         SubSeq(s, CHOOSE i \in rest : \A j \in rest : i <= j,
                                                Len(s)),
                                         r))
             ELSE <<Head(s)>> \o ReplaceRunsOf(InRun, Tail(s), r),
           str)

ReplaceRuns(s, S, r) == ReplaceRunsOf(LAMBDA c : c \in S, s, r)

\* replace(/[^a-z0-9]+/g, "-")
ReplaceNonAlnumRuns(s) == ReplaceRunsOf(LAMBDA c : c \notin LowerAlnum, s, "-")

\* String.prototype.split(/\s+/): a run of whitespace is one separator
SplitWhitespace(s) == SplitChar(ReplaceRuns(s, Whitespace, "WS"), "WS")

\* replace(/^-|-$/g, ""): one leading and one trailing hyphen are removed
StripEdgeHyphens(str) ==
    Strict(LAMBDA a : IF a # <<>> /\ a[Len(a)] = "-" THEN SubSeq(a, 1, Len(a) - 1) ELSE a,
           Strict(LAMBDA s : IF s # <<>> /\ Head(s) = "-" THEN Tail(s) ELSE s, str))

normalizeName(value) ==
    LET nfd       == FlatMap(NfdChar, value)
        noMarks   == SelectSeq(nfd, LAMBDA c : c # "ACUTE")
        lower     == MapChars(ToLowerChar, noMarks)
        hyphened  == ReplaceNonAlnumRuns(lower)
        collapsed == ReplaceRuns(hyphened, {"-"}, "-")
    IN  StripEdgeHyphens(collapsed)

slugifyName(value) == normalizeName(value)

\* word.charAt(0).toUpperCase() + word.slice(1).toLowerCase()
CapitalizeWord(w) ==
    Strict(LAMBDA word :
             IF word = <<>> THEN <<>>
             ELSE <<ToUpperChar(Head(word))>> \o MapChars(ToLowerChar, Tail(word)),
           w)

RECURSIVE JoinWith(_, _)
JoinWith(pieces, sep) ==
    Strict(LAMBDA parts :
             IF parts = <<>> THEN <<>>
             ELSE IF Len(parts) = 1 THEN parts[1]
             ELSE parts[1] \o <<sep>> \o JoinWith(Tail(parts), sep),
           pieces)

capitalizeName(name) ==
    Strict(LAMBDA words :
             JoinWith(AsTuple([i \in 1..Len(words) |-> CapitalizeWord(words[i])]), " "),
           SplitWhitespace(name))

sanitizeFlavorText(rawText) ==
    Trim(ReplaceRuns(MapChars(LAMBDA c : IF c = "FF" THEN " " ELSE c, rawText),
                     Whitespace, " "))

(***************************************************************************)
(* parseCsv                                                                *)
(***************************************************************************)
\* content.split(/\r?\n/): split at LF; a CR right before the LF belongs to
\* the separator
SplitLines(content) ==
    Strict(LAMBDA parts :
             AsTuple([i \in 1..Len(parts) |->
                         IF /\ i < Len(parts)
                            /\ parts[i] # <<>>
                            /\ parts[i][Len(parts[i])] = "CR"
                         THEN SubSeq(parts[i], 1, Len(parts[i]) - 1)
                         ELSE parts[i]]),
           SplitChar(content, "LF"))

\* .map((line) => line.trim())
TrimAll(lines) == Strict(LAMBDA ls : AsTuple([i \in 1..Len(ls) |-> Trim(ls[i])]), lines)

\* line.split(",").map((value) => value.trim())
SplitFields(line) == TrimAll(SplitChar(line, ","))

parseCsv(content) ==
    Strict(LAMBDA kept : AsTuple([i \in 1..Len(kept) |-> SplitFields(kept[i])]),
           SelectSeq(TrimAll(SplitLines(content)),
                     LAMBDA l : Len(l) > 0 /\ Head(l) # "#"))

(***************************************************************************)
(* node:path, as used by main and buildSidecarPath                         *)
(***************************************************************************)
LastIndexOf(s, c) ==
    IF \E i \in 1..Len(s) : s[i] = c
    THEN CHOOSE i \in 1..Len(s) : s[i] = c /\ \A j \in (i + 1)..Len(s) : s[j] # c
    ELSE 0

Cwd == <<"/", "w">>

\* path.resolve(process.cwd(), p)
PathResolve(p) == IF p # <<>> /\ Head(p) = "/" THEN p ELSE Cwd \o <<"/">> \o p

PathDirname(p) ==
    LET i == LastIndexOf(p, "/")
    IN  IF i = 0 THEN <<".">> ELSE IF i = 1 THEN <<"/">> ELSE SubSeq(p, 1, i - 1)

PathLastSegment(p) == SubSeq(p, LastIndexOf(p, "/") + 1, Len(p))

PathExtname(p) ==
    LET b == PathLastSegment(p)
        j == LastIndexOf(b, ".")
    IN  IF j <= 1 THEN <<>> ELSE SubSeq(b, j, Len(b))

\* path.basename(p, ext)
PathBasename(p, ext) ==
    LET b == PathLastSegment(p)
    IN  IF /\ ext # <<>>
           /\ Len(b) > Len(ext)
           /\ SubSeq(b, Len(b) - Len(ext) + 1, Len(b)) = ext
        THEN SubSeq(b, 1, Len(b) - Len(ext))
        ELSE b

PathJoin(dir, name) ==
    IF dir = <<"/">> THEN dir \o name ELSE dir \o <<"/">> \o name

buildSidecarPath(outputFile) ==
    LET directory == PathDirname(outputFile)
        baseName  == PathBasename(outputFile, PathExtname(outputFile))
    IN  PathJoin(directory, baseName \o <<".", "j", "s">>)

(***************************************************************************)
(* URLs, JSON values and HTTP responses                                    *)
(***************************************************************************)
Null == <<"NULL">>          \* JavaScript null / undefined in a string slot

NoUrl == [api |-> "none", ident |-> <<>>]

ALIAS_DATA_URL == [api |-> "pokedex.json", ident |-> <<>>]

PokemonUrl(identifier) == [api |-> "pokemon", ident |-> identifier]

SpeciesUrl(identifier) == [api |-> "pokemon-species", ident |-> identifier]

\* Targets a Location header can name
MovedOnce == [api |-> "moved", ident |-> <<"1">>]

MovedTwice == [api |-> "moved", ident |-> <<"2">>]

RedirectTargets == {MovedOnce, MovedTwice}

Unparseable == [json |-> "unparseable"]

\* `undefined`: every optional-chained read of it yields nothing
NoValue == [json |-> "none", entries |-> <<>>, artwork |-> Null, front |-> Null]

PokedexEntry(id, english, french) ==
    [isNull |-> FALSE, id |-> id, english |-> english, french |-> french]

NullEntry == [isNull |-> TRUE, id |-> <<>>, english |-> <<>>, french |-> <<>>]

JsonArray(items) == [json |-> "array", items |-> items]

JsonObject == [json |-> "object"]

\* Reference datasets the alias URL can serve
DatasetPlain ==
    JsonArray(<<PokedexEntry(<<"1">>, <<"A", "b">>, <<"E_ACUTE", "b">>),
                PokedexEntry(<<"2">>, <<"B", " ", "a">>, <<>>)>>)

\* two records whose English names normalize to the same key
DatasetColliding ==
    JsonArray(<<PokedexEntry(<<"1">>, <<"A", "b", "FEMALE">>, <<"b", "a">>),
                PokedexEntry(<<"2">>, <<"a", "b">>, <<"FEMALE">>)>>)

DatasetWithNull ==
    JsonArray(<<PokedexEntry(<<"1">>, <<"A", "b">>, <<>>), NullEntry>>)

DatasetEmpty == JsonArray(<<>>)

PokedexBodies == {DatasetPlain, DatasetColliding, DatasetWithNull, DatasetEmpty,
                  JsonObject}

PokemonBody(artwork, front) ==
    [json |-> "pokemon", artwork |-> artwork, front |-> front]

PokemonBodies == {PokemonBody(<<"a", "r", "t">>, <<"s">>), PokemonBody(Null, Null)}

FlavorEntry(lang, text) == [isNull |-> FALSE, lang |-> lang, text |-> text]

NullFlavorEntry == [isNull |-> TRUE, lang |-> "", text |-> Null]

SpeciesBody(entries) == [json |-> "species", entries |-> entries]

SpeciesBodies ==
    {SpeciesBody(<<FlavorEntry("en", <<"e">>),
                   FlavorEntry("fr", <<"a", "FF", "LF", "b", " ">>)>>),
     SpeciesBody(<<FlavorEntry("en", <<"e">>), NullFlavorEntry>>)}

Response(status, location, body) ==
    [err |-> FALSE, status |-> status, location |-> location, body |-> body]

ConnectionError ==
    [err |-> TRUE, status |-> 0, location |-> NoUrl, body |-> Unparseable]

NoResponse ==
    [err |-> FALSE, status |-> 0, location |-> NoUrl, parsable |-> FALSE]

\* what a fetch remembers of the response it handled last
Seen(res) ==
    [err |-> res.err, status |-> res.status, location |-> res.location,
     parsable |-> res.body # Unparseable]

(***************************************************************************)
(* fetchJson: the response callback and the request's error listener      *)
(***************************************************************************)
\* fetchJson without the check of the status code
fetchJsonOnResponse_NoStatusCheck(res) ==
    IF res.err
    THEN [act |-> "reject", url |-> NoUrl, value |-> NoValue]
    ELSE IF res.status >= 300 /\ res.status < 400 /\ res.location # NoUrl
    THEN [act |-> "follow", url |-> res.location, value |-> NoValue]
    ELSE IF res.body = Unparseable
    THEN [act |-> "reject", url |-> NoUrl, value |-> NoValue]
    ELSE [act |-> "resolve", url |-> NoUrl, value |-> res.body]

fetchJsonOnResponse(res) ==
    IF res.err
    THEN [act |-> "reject", url |-> NoUrl, value |-> NoValue]
    ELSE IF res.status >= 300 /\ res.status < 400 /\ res.location # NoUrl
    THEN [act |-> "follow", url |-> res.location, value |-> NoValue]
    ELSE IF res.status < 200 \/ res.status >= 300
    THEN [act |-> "reject", url |-> NoUrl, value |-> NoValue]
    ELSE IF res.body = Unparseable
    THEN [act |-> "reject", url |-> NoUrl, value |-> NoValue]
    ELSE [act |-> "resolve", url |-> NoUrl, value |-> res.body]

\* a fresh fetchJson(url) call made on behalf of row `row`
NewFetch(url, row) ==
    [origin |-> url, url |-> url, state |-> "pending", row |-> row,
     last |-> NoResponse, value |-> NoValue]

\* the fetch record after the response `res` to its outstanding request
FetchAfter(f, res) ==
    LET d == fetchJsonOnResponse(res)
    IN  [f EXCEPT !.last = Seen(res),
                  !.url = IF d.act = "follow" THEN d.url ELSE @,
                  !.state = CASE d.act = "resolve" -> "resolved"
                              [] d.act = "reject" -> "rejected"
                              [] OTHER -> "pending",
                  !.value = d.value]

(***************************************************************************)
(* Alias resolver                                                          *)
(***************************************************************************)
EmptyMap == [k \in {} |-> <<>>]

\* map.set(k, v)
MapSet(m, k, v) == (k :> v) @@ m

\* [id, english, french, slugifyName(english)].forEach(...)
RECURSIVE SetVariants(_, _, _)
SetVariants(map, vs, id) ==
    Strict(LAMBDA m :
             Strict(LAMBDA variants :
                      IF variants = <<>> THEN m
                      ELSE SetVariants(IF Head(variants) # <<>>
                                       THEN MapSet(m, normalizeName(Head(variants)), id)
                                       ELSE m,
                                       Tail(variants), id),
                    vs),
           map)

EntryVariants(entry) ==
    <<entry.id, entry.english, entry.french, slugifyName(entry.english)>>

\* data.forEach((entry) => ...)
RECURSIVE AddEntries(_, _)
AddEntries(map, entries) ==
    Strict(LAMBDA m :
             Strict(LAMBDA items :
                      IF items = <<>> THEN m
                      ELSE AddEntries(SetVariants(m, EntryVariants(Head(items)),
                                                  Head(items).id),
                                      Tail(items)),
                    entries),
           map)

\* buildPokemonAliasMap once fetchJson(ALIAS_DATA_URL) has settled as `f`:
\* a rejected fetch, a body without forEach or an entry that cannot be read
\* throws
buildPokemonAliasMap(f) ==
    IF f.state # "resolved" THEN [threw |-> TRUE, map |-> EmptyMap]
    ELSE IF f.value.json # "array" THEN [threw |-> TRUE, map |-> EmptyMap]
    ELSE IF \E i \in 1..Len(f.value.items) : f.value.items[i].isNull
    THEN [threw |-> TRUE, map |-> EmptyMap]
    ELSE [threw |-> FALSE, map |-> AddEntries(EmptyMap, f.value.items)]

\* a handler that keeps the entries read before the failure
AliasMapOf_Partial(f) ==
    IF f.state = "resolved" /\ f.value.json = "array"
    THEN AddEntries(EmptyMap, SelectSeq(f.value.items, LAMBDA e : ~e.isNull))
    ELSE EmptyMap

\* the .catch handler of getPokemonAliasMap: any failure yields new Map()
AliasMapOf(f) ==
    IF buildPokemonAliasMap(f).threw THEN EmptyMap ELSE buildPokemonAliasMap(f).map

\* resolvePokemonIdentifier after `await getPokemonAliasMap()`
resolvePokemonIdentifier(aliasMap, rawName) ==
    Strict(LAMBDA normalized :
             IF normalized \in DOMAIN aliasMap THEN aliasMap[normalized]
             ELSE Strict(LAMBDA slug : IF Len(slug) > 0 THEN slug ELSE rawName,
                         slugifyName(rawName)),
           normalizeName(rawName))

(***************************************************************************)
(* Record assembly                                                         *)
(***************************************************************************)
\* entries.find(entry => entry.language?.name === lang): index found, or 0;
\* reading .language of a null entry throws
FindLang(entries, lang) ==
    IF \E i \in 1..Len(entries) : ~entries[i].isNull /\ entries[i].lang = lang
    THEN CHOOSE i \in 1..Len(entries) :
            /\ ~entries[i].isNull /\ entries[i].lang = lang
            /\ \A j \in 1..(i - 1) : entries[j].isNull \/ entries[j].lang # lang
    ELSE 0

FindThrows(entries, lang) ==
    \E i \in 1..Len(entries) :
        /\ entries[i].isNull
        /\ \A j \in 1..(i - 1) : ~entries[j].isNull /\ entries[j].lang # lang

extractFlavorText(speciesData) ==
    LET entries == speciesData.entries
        fr == FindLang(entries, "fr")
        en == FindLang(entries, "en")
        cands == (IF fr > 0 THEN <<entries[fr].text>> ELSE <<>>)
                   \o (IF en > 0 THEN <<entries[en].text>> ELSE <<>>)
                   \o (IF entries # <<>> /\ ~entries[1].isNull
                       THEN <<entries[1].text>> ELSE <<>>)
        defined == SelectSeq(cands, LAMBDA t : t # Null)
        text == IF defined = <<>> THEN <<>> ELSE Head(defined)
    IN  IF FindThrows(entries, "fr") \/ FindThrows(entries, "en")
        THEN [threw |-> TRUE, text |-> <<>>]
        ELSE [threw |-> FALSE, text |-> sanitizeFlavorText(text)]

\* pokemonData?.sprites?.other?.["official-artwork"]?.front_default
\*   ?? pokemonData?.sprites?.front_default ?? null
SelectImage(pokemonData) ==
    IF pokemonData.artwork # Null THEN pokemonData.artwork
    ELSE pokemonData.front

TeamRecord(row, pokemonData, speciesData) ==
    [name |-> Trim(row[1]),
     pokemon |-> capitalizeName(Trim(row[2])),
     image |-> SelectImage(pokemonData),
     description |-> extractFlavorText(speciesData).text]

\* !person || !pokemon
Incomplete(row) ==
    \/ Len(row) < 2
    \/ row[1] = <<>>
    \/ row[2] = <<>>

(***************************************************************************)
(* Bounds and inputs                                                       *)
(***************************************************************************)
MaxContentLen == 3

ContentAlphabet == {"a", ",", "#", " ", "LF"}

RECURSIVE TextsUpTo(_)
TextsUpTo(n) ==
    IF n = 0 THEN {<<>>}
    ELSE LET shorter == TextsUpTo(n - 1)
         IN  shorter \cup {Append(t, c) : t \in shorter, c \in ContentAlphabet}

\* "a,éb\r\nb,\n#a,a\ne, ♀ " and "s,Ab"
TeamFiles ==
    {<<"a", ",", "E_ACUTE", "b", "CR", "LF", "b", ",", "LF",
       "#", "a", ",", "a", "LF", "e", ",", " ", "FEMALE", " ">>,
     <<"s", ",", "A", "b">>}


\* "d.json", "d.js", "d", "/o/d.json"
OutputPaths ==
    {<<>>,
     <<"d", ".", "j", "s", "o", "n">>,
     <<"d", ".", "j", "s">>,
     <<"d">>,
     <<"/", "o", "/", "d", ".", "j", "s", "o", "n">>}

\* destinations the team files are generated to
TeamOutputPaths == {<<>>, <<"d", ".", "j", "s", "o", "n">>}

VARIABLES
    argvInput,        \* process.argv[2] is given
    outputPath,       \* process.argv[3]; <<>> when absent
    inputFile,        \* what fs.readFile finds: [ok, content]
    pc,               \* where main is suspended
    rows,             \* parseCsv(csvContent)
    idx,              \* index of the row the for-loop is at
    datasets,         \* the array main pushes records to
    identifiers,      \* row index -> identifier resolved for it
    rowOutcome,       \* row index -> "incomplete" | "failed" | "appended"
    aliasMapPromise,  \* the module-level promise: [state, fetch, map]
    aliasBuilds,      \* number of buildPokemonAliasMap() calls made
    fetches,          \* fetchJson calls: id -> fetch record
    files,            \* the file system: path -> content written
    stdout,           \* what was written to process.stdout
    exitCode,         \* -1 while running, else the process exit code
    callers,          \* concurrent resolvePokemonIdentifier calls: [state, raw, result]
    \* script.js, in the browser
    protocol,         \* window.location.protocol
    teamData,         \* window.__TEAM_DATA__
    hasContainer,     \* document.getElementById("cards") found an element
    bpc,              \* where script.js's main is suspended
    response,         \* what fetch("data.json") settled with
    loaded,           \* how loadTeamMembers completed: [threw, value]
    netFetches,       \* number of fetch() calls made
    cards,            \* the cards appended to the container
    renderThrew       \* main's forEach threw

browserVars == <<protocol, teamData, hasContainer, bpc, response, loaded,
                 netFetches, cards, renderThrew>>

vars == <<argvInput, outputPath, inputFile, pc, rows, idx, datasets,
          identifiers, rowOutcome, aliasMapPromise, aliasBuilds, fetches,
          files, stdout, exitCode, callers, browserVars>>

\* what main owns and the resolver's callers never touch
mainVars == <<argvInput, outputPath, inputFile, pc, rows, idx, datasets,
              identifiers, rowOutcome, files, stdout, exitCode>>

inputVars == <<argvInput, outputPath, inputFile>>

aliasVars == <<aliasMapPromise, aliasBuilds>>

\* JSON.stringify(datasets, null, 2)
JsonText(ds) == [indent |-> 2, data |-> ds]

JsonFile(ds) == [prefix |-> "", json |-> JsonText(ds), suffix |-> ""]

\* `window.__TEAM_DATA__ = ${jsonOutput};\n`
JsPayload(ds) ==
    [prefix |-> "window.__TEAM_DATA__ = ", json |-> JsonText(ds), suffix |-> ";LF"]

NoFunction == [k \in {} |-> <<>>]

UnsetPromise == [state |-> "unset", fetch |-> <<"alias", 0>>, map |-> EmptyMap]

NumCallers == 2

Callers == 1..NumCallers

IdleCaller == [state |-> "idle", raw |-> <<>>, result |-> <<>>]

JsonUndefined == [json |-> "undefined"]

NoLoad == [threw |-> FALSE, value |-> JsonUndefined]

NoBrowserResponse == [err |-> FALSE, status |-> 0, body |-> Unparseable]

\* no page is open
InitNoBrowser ==
    /\ protocol = "file:"
    /\ teamData = JsonUndefined
    /\ hasContainer = FALSE
    /\ bpc = "off"
    /\ response = NoBrowserResponse
    /\ loaded = NoLoad
    /\ netFetches = 0
    /\ cards = <<>>
    /\ renderThrew = FALSE

InitProgram ==
    /\ InitNoBrowser
    /\ callers = [c \in Callers |-> IdleCaller]
    /\ rows = <<>>
    /\ idx = 0
    /\ datasets = <<>>
    /\ identifiers = NoFunction
    /\ rowOutcome = NoFunction
    /\ aliasMapPromise = UnsetPromise
    /\ aliasBuilds = 0
    /\ fetches = NoFunction
    /\ files = NoFunction
    /\ stdout = <<>>
    /\ exitCode = -1

Init ==
    /\ InitProgram
    /\ pc = "start"
    /\ \/ /\ argvInput = FALSE
          /\ outputPath = <<>>
          /\ inputFile = [ok |-> FALSE, content |-> <<>>]
       \/ /\ argvInput = TRUE
          /\ \/ /\ outputPath \in OutputPaths
                /\ inputFile \in {[ok |-> FALSE, content |-> <<>>]}
                        \cup {[ok |-> TRUE, content |-> c] : c \in TextsUpTo(MaxContentLen)}
             \/ /\ outputPath \in TeamOutputPaths
                /\ inputFile \in {[ok |-> TRUE, content |-> c] : c \in TeamFiles}

(***************************************************************************)
(* getPokemonAliasMap                                                      *)
(***************************************************************************)
\* a guard that memoizes the settled map instead of the promise
AliasFetchNeeded_Unsettled == aliasMapPromise.state # "fulfilled"

\* !aliasMapPromise
AliasFetchNeeded == aliasMapPromise.state = "unset"

\* the synchronous body of getPokemonAliasMap, called while row `row` is
\* being processed, on top of the fetch table `fs`
getPokemonAliasMap(row, fs) ==
    IF AliasFetchNeeded
    THEN /\ aliasBuilds' = aliasBuilds + 1
         /\ aliasMapPromise' = [state |-> "pending",
                                fetch |-> <<"alias", aliasBuilds + 1>>,
                                map |-> EmptyMap]
         /\ fetches' = (<<"alias", aliasBuilds + 1>> :> NewFetch(ALIAS_DATA_URL, row))
                          @@ fs
    ELSE /\ fetches' = fs
         /\ UNCHANGED aliasVars

\* the promise settles once fetchJson(ALIAS_DATA_URL) has
AliasSettle ==
    /\ pc # "exited"
    /\ aliasMapPromise.state = "pending"
    /\ fetches[aliasMapPromise.fetch].state # "pending"
    /\ aliasMapPromise' = [aliasMapPromise EXCEPT
                              !.state = "fulfilled",
                              !.map = AliasMapOf(fetches[aliasMapPromise.fetch])]
    /\ UNCHANGED <<inputVars, pc, rows, idx, datasets, identifiers, rowOutcome,
                   aliasBuilds, fetches, files, stdout, exitCode, callers, browserVars>>

(***************************************************************************)
(* main                                                                    *)
(***************************************************************************)
\* process.exit(1)
Exit1 ==
    /\ pc' = "exited"
    /\ exitCode' = 1

NextComplete(rs, i) ==
    IF \E j \in i..Len(rs) : ~Incomplete(rs[j])
    THEN CHOOSE j \in i..Len(rs) :
            ~Incomplete(rs[j]) /\ \A k \in i..(j - 1) : Incomplete(rs[k])
    ELSE Len(rs) + 1

\* The for-loop from row i on, up to main's next await: incomplete rows are
\* skipped, the next complete row calls resolvePokemonIdentifier; past the
\* last row the dataset is serialized and the output step starts.
\* (rows' is set by the caller: parsed by ReadDone, unchanged afterwards.)
ContinueLoop(i, ds, outc) ==
    LET j == NextComplete(rows', i)
    IN  /\ idx' = j
        /\ datasets' = ds
        /\ rowOutcome' = [k \in i..(j - 1) |-> "incomplete"] @@ outc
        /\ UNCHANGED <<identifiers, files>>
        /\ IF j <= Len(rows')
           THEN /\ pc' = "resolving"
                /\ getPokemonAliasMap(j, fetches)
                /\ UNCHANGED <<stdout, exitCode>>
           ELSE /\ UNCHANGED <<aliasVars, fetches>>
                /\ IF outputPath # <<>>
                   THEN /\ pc' = "writeJson"
                        /\ UNCHANGED <<stdout, exitCode>>
                   ELSE /\ pc' = "done"
                        /\ stdout' = Append(stdout, JsonText(ds))
                        /\ exitCode' = 0

MainStart ==
    /\ pc = "start"
    /\ IF ~argvInput THEN Exit1 ELSE pc' = "read" /\ UNCHANGED exitCode
    /\ UNCHANGED <<inputVars, rows, idx, datasets, identifiers, rowOutcome,
                   aliasVars, fetches, files, stdout, callers, browserVars>>

\* ReadDone without the `rows.length === 0` check
ReadDone_NoEmptyCheck ==
    /\ pc = "read"
    /\ UNCHANGED <<inputVars, callers, browserVars>>
    /\ IF ~inputFile.ok
       THEN /\ Exit1
            /\ UNCHANGED <<rows, idx, datasets, identifiers, rowOutcome,
                           aliasVars, fetches, files, stdout>>
       ELSE /\ rows' = parseCsv(inputFile.content)
            /\ ContinueLoop(1, <<>>, NoFunction)

\* fs.readFile settles; parseCsv; the empty check; the loop starts
ReadDone ==
    /\ pc = "read"
    /\ UNCHANGED <<inputVars, callers, browserVars>>
    /\ IF ~inputFile.ok \/ Len(parseCsv(inputFile.content)) = 0
       THEN /\ Exit1
            /\ UNCHANGED <<rows, idx, datasets, identifiers, rowOutcome,
                           aliasVars, fetches, files, stdout>>
       ELSE /\ rows' = parseCsv(inputFile.content)
            /\ ContinueLoop(1, <<>>, NoFunction)

\* `await resolvePokemonIdentifier(trimmedPokemon)` resumes; both metadata
\* requests are issued
ResolveDone ==
    /\ pc = "resolving"
    /\ aliasMapPromise.state = "fulfilled"
    /\ LET identifier == resolvePokemonIdentifier(aliasMapPromise.map,
                                                  Trim(rows[idx][2]))
       IN  /\ identifiers' = (idx :> identifier) @@ identifiers
           /\ fetches' = (<<"pokemon", idx>> :> NewFetch(PokemonUrl(identifier), idx))
                         @@ (<<"species", idx>> :> NewFetch(SpeciesUrl(identifier), idx))
                         @@ fetches
    /\ pc' = "fetching"
    /\ UNCHANGED <<inputVars, rows, idx, datasets, rowOutcome, aliasVars,
                   files, stdout, exitCode, callers, browserVars>>

\* a row whose description is assembled outside the try block
RowFails_IgnoringAssembly(p, s) ==
    \/ p.state = "rejected"
    \/ s.state = "rejected"

\* the try block throws: Promise.all rejected, or the assembly threw
RowFails(p, s) ==
    \/ p.state = "rejected"
    \/ s.state = "rejected"
    \/ p.state = "resolved" /\ s.state = "resolved"
         /\ extractFlavorText(s.value).threw

\* Promise.race in place of Promise.all
PromiseAllSettled_AnySettled(p, s) ==
    \/ p.state # "pending"
    \/ s.state # "pending"

\* Promise.all settles: rejected as soon as either request is, fulfilled
\* when both are
PromiseAllSettled(p, s) ==
    \/ p.state = "rejected"
    \/ s.state = "rejected"
    \/ p.state = "resolved" /\ s.state = "resolved"

\* the await on Promise.all resumes: the record is pushed, or the catch
\* block logs the failure; either way the loop goes on
RowSettled ==
    /\ pc = "fetching"
    /\ UNCHANGED <<inputVars, callers, rows, browserVars>>
    /\ LET p == fetches[<<"pokemon", idx>>]
           s == fetches[<<"species", idx>>]
       IN  /\ PromiseAllSettled(p, s)
           /\ IF RowFails(p, s)
              THEN ContinueLoop(idx + 1, datasets,
                                (idx :> "failed") @@ rowOutcome)
              ELSE ContinueLoop(idx + 1,
                                Append(datasets, TeamRecord(rows[idx], p.value, s.value)),
                                (idx :> "appended") @@ rowOutcome)

WriteJsonDone ==
    /\ pc = "writeJson"
    /\ \E ok \in BOOLEAN :
          IF ok
          THEN /\ files' = (PathResolve(outputPath) :> JsonFile(datasets)) @@ files
               /\ pc' = "writeSidecar"
               /\ UNCHANGED exitCode
          ELSE Exit1 /\ UNCHANGED files
    /\ UNCHANGED <<inputVars, rows, idx, datasets, identifiers, rowOutcome,
                   aliasVars, fetches, stdout, callers, browserVars>>

WriteSidecarDone ==
    /\ pc = "writeSidecar"
    /\ \E ok \in BOOLEAN :
          IF ok
          THEN /\ files' = (buildSidecarPath(PathResolve(outputPath))
                               :> JsPayload(datasets)) @@ files
               /\ pc' = "done"
               /\ exitCode' = 0
          ELSE Exit1 /\ UNCHANGED files
    /\ UNCHANGED <<inputVars, rows, idx, datasets, identifiers, rowOutcome,
                   aliasVars, fetches, stdout, callers, browserVars>>

(***************************************************************************)
(* The network                                                             *)
(***************************************************************************)
BodiesFor(f) ==
    CASE f[1] = "alias" -> {DatasetPlain, DatasetWithNull, JsonObject, Unparseable}
      [] f[1] = "pokemon" -> PokemonBodies
      [] OTHER -> SpeciesBodies

\* responses the generator's requests meet
MainResponses(f) ==
    {ConnectionError}
      \cup (IF f[1] = "alias" THEN {Response(404, NoUrl, Unparseable)} ELSE {})
      \cup {Response(301, u, Unparseable) : u \in {MovedOnce}}
      \cup {Response(200, NoUrl, b) : b \in BodiesFor(f)}

\* every shape of response fetchJson tells apart, at the edges of its ranges
Statuses == {199, 200, 299, 300, 399, 400}

AllResponses ==
    {ConnectionError}
      \cup {Response(st, loc, b) : st \in Statuses,
                                   loc \in {NoUrl} \cup RedirectTargets,
                                   b \in PokedexBodies \cup {Unparseable}}

Deliver(f, res) ==
    /\ pc # "exited"
    /\ f \in DOMAIN fetches
    /\ fetches[f].state = "pending"
    /\ fetches' = [fetches EXCEPT ![f] = FetchAfter(@, res)]
    /\ UNCHANGED <<mainVars, aliasVars, callers, browserVars>>

Respond == \E f \in DOMAIN fetches : \E res \in MainResponses(f) : Deliver(f, res)

Next ==
    \/ MainStart
    \/ ReadDone
    \/ AliasSettle
    \/ ResolveDone
    \/ RowSettled
    \/ WriteJsonDone
    \/ WriteSidecarDone
    \/ Respond

Spec == Init /\ [][Next]_vars

(***************************************************************************)
(* The generator under fair scheduling: every continuation that can run    *)
(* does, and every outstanding request gets a response or an error.        *)
(***************************************************************************)
MaxRows == 3

FetchIds ==
    {<<"alias", 1>>} \cup {<<api, i>> : api \in {"pokemon", "species"}, i \in 1..MaxRows}

\* "s,Ab" and "a,éb\nb,\ne,h"
FairFiles ==
    {<<"s", ",", "A", "b">>,
     <<"a", ",", "E_ACUTE", "b", "LF", "b", ",", "LF", "e", ",", "h">>}

FairResponses(f) ==
    {ConnectionError}
      \cup {Response(301, u, Unparseable) : u \in RedirectTargets}
      \cup {Response(200, NoUrl,
                      CASE f[1] = "alias" -> DatasetPlain
                        [] f[1] = "pokemon" -> PokemonBody(Null, <<"s">>)
                        [] OTHER -> SpeciesBody(<<FlavorEntry("en", <<"e">>)>>))}

RespondTo(f) == \E res \in FairResponses(f) : Deliver(f, res)

InitFair ==
    /\ InitProgram
    /\ pc = "start"
    /\ argvInput = TRUE
    /\ outputPath \in TeamOutputPaths
    /\ inputFile \in {[ok |-> TRUE, content |-> c] : c \in FairFiles}

\* the continuations the event loop runs; at most one is ready at a time
Continuation ==
    \/ MainStart
    \/ ReadDone
    \/ AliasSettle
    \/ ResolveDone
    \/ RowSettled
    \/ WriteJsonDone
    \/ WriteSidecarDone

NextFair ==
    \/ Continuation
    \/ \E f \in FetchIds : RespondTo(f)

FairSpec ==
    /\ InitFair
    /\ [][NextFair]_vars
    /\ WF_vars(Continuation)
    /\ \A f \in FetchIds : WF_vars(RespondTo(f))

AllSettled == \A f \in DOMAIN fetches : fetches[f].state # "pending"

Terminated ==
    \/ pc = "exited"
    \/ pc = "done" /\ DOMAIN rowOutcome = 1..Len(rows) /\ AllSettled

(***************************************************************************)
(* The resolver under concurrent callers                                   *)
(***************************************************************************)
\* "Ab", "éB", "1", "Ab♀", "♀", "b a", "h"
RawNames ==
    {<<"A", "b">>, <<"E_ACUTE", "B">>, <<"1">>, <<"A", "b", "FEMALE">>,
     <<"FEMALE">>, <<"b", " ", "a">>, <<"h">>}

\* resolvePokemonIdentifier(raw) is called and suspends on the alias map
CallResolve(c, raw) ==
    /\ callers[c].state # "waiting"
    /\ callers' = [callers EXCEPT ![c] = [state |-> "waiting", raw |-> raw,
                                          result |-> <<>>]]
    /\ getPokemonAliasMap(0, fetches)
    /\ UNCHANGED <<mainVars, browserVars>>

\* the call resumes with the settled alias map and returns
ReturnResolve(c) ==
    /\ callers[c].state = "waiting"
    /\ aliasMapPromise.state = "fulfilled"
    /\ callers' = [callers EXCEPT ![c] =
                      [@ EXCEPT !.state = "returned",
                                !.result = resolvePokemonIdentifier(
                                               aliasMapPromise.map, callers[c].raw)]]
    /\ UNCHANGED <<mainVars, aliasVars, fetches, browserVars>>

RespondAny == \E f \in DOMAIN fetches : \E res \in AllResponses : Deliver(f, res)

InitResolver ==
    /\ InitProgram
    /\ pc = "off"
    /\ argvInput = FALSE
    /\ outputPath = <<>>
    /\ inputFile = [ok |-> FALSE, content |-> <<>>]

NextResolver ==
    \/ \E c \in Callers : \E raw \in RawNames : CallResolve(c, raw)
    \/ \E c \in Callers : ReturnResolve(c)
    \/ AliasSettle
    \/ RespondAny

SpecResolver == InitResolver /\ [][NextResolver]_vars

(***************************************************************************)
(* script.js: loadTeamMembers and the renderer                             *)
(***************************************************************************)
MaxMembers == 2

Member(name, pokemon) ==
    [isNull |-> FALSE, name |-> name, pokemon |-> pokemon, image |-> Null,
     description |-> <<"e">>]

NullMember ==
    [isNull |-> TRUE, name |-> <<>>, pokemon |-> <<>>, image |-> Null,
     description |-> <<>>]

MemberKinds == {Member(<<"a">>, <<"A", "b">>), NullMember}

RECURSIVE MemberLists(_)
MemberLists(n) ==
    IF n = 0 THEN {<<>>}
    ELSE LET shorter == MemberLists(n - 1)
         IN  shorter \cup {Append(l, m) : l \in shorter, m \in MemberKinds}

\* values data.json or window.__TEAM_DATA__ can hold
TeamValues ==
    {JsonUndefined, JsonObject} \cup {JsonArray(l) : l \in MemberLists(MaxMembers)}

BrowserResponses ==
    {[err |-> TRUE, status |-> 0, body |-> Unparseable]}
      \cup {[err |-> FALSE, status |-> st, body |-> b] :
               st \in {200, 404},
               b \in {Unparseable} \cup (TeamValues \ {JsonUndefined})}

EmptyList == JsonArray(<<>>)

\* the try block of loadTeamMembers once fetch has settled with r: a
\* rejected fetch and a response that is not ok throw
TryFetched(r) ==
    IF r.err \/ r.status < 200 \/ r.status > 299
    THEN [threw |-> TRUE, value |-> JsonUndefined]
    ELSE [threw |-> FALSE, value |-> JsonUndefined]

\* the rest of the try block once response.json() has settled: a body that
\* does not parse and a value that is no array throw
TryParsed(r) ==
    IF r.body = Unparseable \/ r.body.json # "array"
    THEN [threw |-> TRUE, value |-> JsonUndefined]
    ELSE [threw |-> FALSE, value |-> r.body]

\* catch (error) { console.error(...); return []; }
CatchLoad(t) == IF t.threw THEN [threw |-> FALSE, value |-> EmptyList] ELSE t

\* the "file:" branch of loadTeamMembers
LoadEmbedded(data) ==
    IF data.json = "array" THEN [threw |-> FALSE, value |-> data]
    ELSE [threw |-> FALSE, value |-> EmptyList]

\* the card main builds for one member
Card(member) ==
    [src |-> member.image,
     alt |-> member.pokemon \o <<" ", "d", "e", " ">> \o member.name,
     title |-> member.name,
     badge |-> member.pokemon,
     description |-> member.description]

\* teamMembers.forEach(...): reading member.image of a null member throws
\* and ends the loop
RenderedBefore(members) ==
    IF \E i \in 1..Len(members) : members[i].isNull
    THEN (CHOOSE i \in 1..Len(members) :
             members[i].isNull /\ \A j \in 1..(i - 1) : ~members[j].isNull) - 1
    ELSE Len(members)

generatorVars == <<argvInput, outputPath, inputFile, pc, rows, idx, datasets,
                   identifiers, rowOutcome, aliasMapPromise, aliasBuilds, fetches,
                   files, stdout, exitCode, callers>>

\* main() up to its first suspension
BrowserStart ==
    /\ bpc = "start"
    /\ IF ~hasContainer
       THEN /\ bpc' = "done"
            /\ UNCHANGED <<loaded, netFetches>>
       ELSE IF protocol = "file:"
       THEN /\ loaded' = LoadEmbedded(teamData)
            /\ bpc' = "loaded"
            /\ UNCHANGED netFetches
       ELSE /\ netFetches' = netFetches + 1
            /\ bpc' = "fetching"
            /\ UNCHANGED loaded
    /\ UNCHANGED <<generatorVars, protocol, teamData, hasContainer, response,
                   cards, renderThrew>>

\* `await fetch("data.json", { cache: "no-store" })` settles
FetchSettles ==
    /\ bpc = "fetching"
    /\ \E r \in BrowserResponses :
          /\ response' = r
          /\ IF TryFetched(r).threw
             THEN loaded' = CatchLoad(TryFetched(r)) /\ bpc' = "loaded"
             ELSE bpc' = "parsing" /\ UNCHANGED loaded
    /\ UNCHANGED <<generatorVars, protocol, teamData, hasContainer, netFetches,
                   cards, renderThrew>>

\* `await response.json()` settles
JsonSettles ==
    /\ bpc = "parsing"
    /\ loaded' = CatchLoad(TryParsed(response))
    /\ bpc' = "loaded"
    /\ UNCHANGED <<generatorVars, protocol, teamData, hasContainer, response,
                   netFetches, cards, renderThrew>>

\* `await loadTeamMembers()` resumes and the cards are appended
Render ==
    /\ bpc = "loaded"
    /\ IF loaded.threw
       THEN renderThrew' = TRUE /\ UNCHANGED cards
       ELSE LET members == loaded.value.items
                n == RenderedBefore(members)
            IN  /\ cards' = cards \o AsTuple([i \in 1..n |-> Card(members[i])])
                /\ renderThrew' = (n < Len(members))
    /\ bpc' = "done"
    /\ UNCHANGED <<generatorVars, protocol, teamData, hasContainer, response,
                   loaded, netFetches>>

InitBrowser ==
    /\ callers = [c \in Callers |-> IdleCaller]
    /\ rows = <<>>
    /\ idx = 0
    /\ datasets = <<>>
    /\ identifiers = NoFunction
    /\ rowOutcome = NoFunction
    /\ aliasMapPromise = UnsetPromise
    /\ aliasBuilds = 0
    /\ fetches = NoFunction
    /\ files = NoFunction
    /\ stdout = <<>>
    /\ exitCode = -1
    /\ pc = "off"
    /\ argvInput = FALSE
    /\ outputPath = <<>>
    /\ inputFile = [ok |-> FALSE, content |-> <<>>]
    /\ protocol \in {"file:", "http:", "https:"}
    /\ teamData \in TeamValues
    /\ hasContainer \in BOOLEAN
    /\ bpc = "start"
    /\ response = NoBrowserResponse
    /\ loaded = NoLoad
    /\ netFetches = 0
    /\ cards = <<>>
    /\ renderThrew = FALSE

NextBrowser ==
    \/ BrowserStart
    \/ FetchSettles
    \/ JsonSettles
    \/ Render

SpecBrowser == InitBrowser /\ [][NextBrowser]_vars

(***************************************************************************)
(* Properties                                                              *)
(***************************************************************************)
\* the pipeline of row i succeeded: both requests resolved and the record
\* could be assembled
RowSucceeded(i) ==
    /\ <<"pokemon", i>> \in DOMAIN fetches
    /\ <<"species", i>> \in DOMAIN fetches
    /\ fetches[<<"pokemon", i>>].state = "resolved"
    /\ fetches[<<"species", i>>].state = "resolved"
    /\ ~extractFlavorText(fetches[<<"species", i>>].value).threw

\* some request of row i was rejected
RowRejected(i) ==
    \E api \in {"pokemon", "species"} :
        <<api, i>> \in DOMAIN fetches /\ fetches[<<api, i>>].state = "rejected"

\* one record per succeeded row among rows 1..n, in row order
ExpectedDataset(n) ==
    LET ok == SelectSeq(AsTuple([i \in 1..n |-> i]), RowSucceeded)
    IN  AsTuple([k \in 1..Len(ok) |->
                    TeamRecord(rows[ok[k]],
                               fetches[<<"pokemon", ok[k]>>].value,
                               fetches[<<"species", ok[k]>>].value)])

OutputStep == pc \in {"writeJson", "writeSidecar", "done"}

\* C1: the dataset holds exactly one record for each row whose pipeline
\* succeeded, in row order, and nothing for a row that failed; a failing
\* row never ends the run: the loop reaches every row and then the output
\* step, and the process exits early only before the loop or in the output
\* step.
C1_DatasetHoldsSucceededRowsInOrder ==
    /\ datasets = ExpectedDataset(idx - 1)
    /\ \A i \in 1..(idx - 1) : i \in DOMAIN rowOutcome
    /\ OutputStep => idx = Len(rows) + 1
    /\ (pc = "exited" /\ rows # <<>>) => idx = Len(rows) + 1

\* a run completed in which an earlier row failed on a rejected request and
\* a later row succeeded
C1_Witness ==
    /\ pc = "done"
    /\ Len(datasets) = 1
    /\ \E i \in 1..Len(rows) : \E j \in (i + 1)..Len(rows) :
          RowRejected(i) /\ RowSucceeded(j)

AliasFetches == {f \in DOMAIN fetches : fetches[f].origin = ALIAS_DATA_URL}

\* C2: however many calls of resolvePokemonIdentifier arrive and however
\* they interleave, buildPokemonAliasMap is started at most once and there
\* is at most one fetch of the alias dataset; every call that is waiting
\* waits on the promise of that one fetch.
C2_AliasFetchedAtMostOnce ==
    /\ aliasBuilds <= 1
    /\ Cardinality(AliasFetches) <= 1
    /\ \A c \in Callers :
          callers[c].state # "idle" =>
              /\ aliasBuilds = 1
              /\ aliasMapPromise.state # "unset"
              /\ aliasMapPromise.fetch = <<"alias", 1>>
              /\ AliasFetches = {<<"alias", 1>>}

\* every caller is waiting while the one fetch is outstanding
C2_Witness ==
    /\ \A c \in Callers : callers[c].state = "waiting"
    /\ aliasMapPromise.state = "pending"
    /\ fetches[<<"alias", 1>>].state = "pending"
    /\ aliasBuilds = 1

\* the alias dataset could not be fetched or processed
AliasUnusable ==
    \E f \in AliasFetches :
        LET a == fetches[f]
        IN  /\ a.state # "pending"
            /\ \/ a.last.err
               \/ a.last.status < 200
               \/ a.last.status > 299
               \/ ~a.last.parsable
               \/ a.value.json # "array"
               \/ \E i \in 1..Len(a.value.items) : a.value.items[i].isNull

SlugOrRaw(raw) == IF Len(slugifyName(raw)) > 0 THEN slugifyName(raw) ELSE raw

\* C3: when the alias dataset cannot be fetched or processed, the run does
\* not fail on it, the alias table is empty, the fetch is not made again,
\* and every row resolves to the slug of its species name, or to the name
\* itself when the slug is empty.
C3_AliasFailureFallsBackToSlug ==
    AliasUnusable =>
        /\ aliasBuilds = 1
        /\ Cardinality(AliasFetches) = 1
        /\ aliasMapPromise.state = "fulfilled" => aliasMapPromise.map = EmptyMap
        /\ \A i \in DOMAIN identifiers :
              identifiers[i] = SlugOrRaw(Trim(rows[i][2]))
        /\ pc = "exited" => idx = Len(rows) + 1
        /\ OutputStep =>
              \A i \in 1..Len(rows) :
                  ~Incomplete(rows[i]) => i \in DOMAIN identifiers

\* a run completed after the alias dataset failed: its first row resolved
\* to a slug, a later row to its raw name
C3_Witness ==
    /\ AliasUnusable
    /\ pc = "done"
    /\ DOMAIN identifiers = {1, 3}
    /\ identifiers[1] = <<"e", "b">>
    /\ identifiers[3] = <<"FEMALE">>

NothingWritten == files = NoFunction /\ stdout = <<>>

\* no row of `parsed` has both a person and a species
NoUsableRow(parsed) == \A i \in 1..Len(parsed) : Incomplete(parsed[i])

\* C4 as stated: when no line yields a row with both fields, the run exits
\* with code 1 and writes nothing.
C4_FatalWithoutUsableRow ==
    (inputFile.ok /\ (~NothingWritten \/ exitCode = 0)) =>
        ~NoUsableRow(parseCsv(inputFile.content))

\* C4: when parsing yields no row at all (no line that is non-blank and no
\* comment), the run exits with code 1 and writes nothing; when it yields
\* rows that all lack a field, the run skips them, makes no request and
\* completes with code 0 on the empty dataset.
C4_FatalWithoutRows ==
    inputFile.ok =>
        Strict(LAMBDA parsed :
                 /\ parsed = <<>> =>
                       /\ NothingWritten
                       /\ exitCode # 0
                       /\ pc \notin {"start", "read"} => pc = "exited" /\ exitCode = 1
                 /\ (parsed # <<>> /\ NoUsableRow(parsed)) =>
                       /\ fetches = NoFunction
                       /\ datasets = <<>>
                       /\ pc = "exited" => outputPath # <<>>
                       /\ pc = "done" =>
                             /\ exitCode = 0
                             /\ IF outputPath = <<>>
                                THEN stdout = <<JsonText(<<>>)>>
                                ELSE PathResolve(outputPath) \in DOMAIN files,
               parseCsv(inputFile.content))

\* a file with content but no row made the run exit with code 1
C4_Witness ==
    /\ pc = "exited"
    /\ exitCode = 1
    /\ NothingWritten
    /\ inputFile.ok
    /\ inputFile.content # <<>>
    /\ parseCsv(inputFile.content) = <<>>

\* the alias dataset was fetched and every entry of it could be read
AliasDatasetRead ==
    /\ <<"alias", 1>> \in DOMAIN fetches
    /\ fetches[<<"alias", 1>>].state = "resolved"
    /\ fetches[<<"alias", 1>>].value.json = "array"
    /\ \A i \in 1..Len(fetches[<<"alias", 1>>].value.items) :
          ~fetches[<<"alias", 1>>].value.items[i].isNull

\* the names a record is known by
NamesOf(entry) == {entry.id, entry.english, entry.french, slugifyName(entry.english)} \ {<<>>}

\* C5: for every record of the reference dataset, a call given the
\* record's id, English name, French name or slug returns that record's id;
\* a call given a name whose normalized form is no key of the alias table
\* returns the slug of the name, or the name when the slug is empty.
C5_EveryNameResolvesToItsRecord ==
    AliasDatasetRead =>
        \A c \in Callers :
            callers[c].state = "returned" =>
                LET items == fetches[<<"alias", 1>>].value.items
                IN  /\ \A i \in 1..Len(items) :
                          callers[c].raw \in NamesOf(items[i]) =>
                              callers[c].result = items[i].id
                    /\ normalizeName(callers[c].raw) \notin DOMAIN aliasMapPromise.map =>
                          callers[c].result = SlugOrRaw(callers[c].raw)

\* C6: after a successful run with a destination path, the destination
\* holds the JSON text of the dataset and the sidecar holds the assignment
\* of that same text; without a destination no file is written and the
\* JSON text is on standard output.
C6_DestinationHoldsJsonAndSidecarHoldsPayload ==
    pc = "done" =>
        IF outputPath # <<>>
        THEN /\ PathResolve(outputPath) \in DOMAIN files
             /\ files[PathResolve(outputPath)] = JsonFile(datasets)
             /\ buildSidecarPath(PathResolve(outputPath)) \in DOMAIN files
             /\ files[buildSidecarPath(PathResolve(outputPath))] = JsPayload(datasets)
             /\ stdout = <<>>
        ELSE /\ files = NoFunction
             /\ stdout = <<JsonText(datasets)>>

\* the response is a 3xx that carries a Location header
IsRedirect(r) == ~r.err /\ r.status >= 300 /\ r.status < 400 /\ r.location # NoUrl

\* C7: a fetchJson call that last saw a 3xx response with a Location header
\* is requesting the Location target and its outcome is still open; one
\* that last saw a connection error or a status outside 2xx that is no
\* such redirect is rejected; a call is resolved exactly when the last
\* response had a 2xx status and a body that parses, and then with a value.
C7_FetchJsonFollowsRedirectsAndRejectsFailures ==
    \A f \in DOMAIN fetches :
        LET a == fetches[f]
        IN  IF a.last = NoResponse
            THEN a.state = "pending" /\ a.url = a.origin
            ELSE /\ IsRedirect(a.last) => a.state = "pending" /\ a.url = a.last.location
                 /\ (~IsRedirect(a.last)
                       /\ (a.last.err \/ a.last.status < 200 \/ a.last.status > 299)) =>
                        a.state = "rejected"
                 /\ a.state = "resolved" <=>
                        /\ ~a.last.err
                        /\ a.last.status >= 200
                        /\ a.last.status <= 299
                        /\ a.last.parsable
                 /\ a.state = "resolved" <=> a.value # NoValue
                 /\ a.state = "resolved" => a.value # Unparseable

\* a call that followed a redirect and resolved with the follow-up's body
C7_Witness ==
    \E f \in DOMAIN fetches :
        /\ fetches[f].state = "resolved"
        /\ fetches[f].url \in RedirectTargets
        /\ fetches[f].value = DatasetPlain

\* C8: loadTeamMembers returns an array and does not throw: under "file:"
\* the embedded array, or an empty list when there is none, without a
\* fetch; otherwise the body of data.json when the response is ok and the
\* body an array, else an empty list; the renderer appends one card per
\* entry of the list and does not throw.
C8_LoaderNeverThrowsAndRendererAppendsEveryEntry ==
    (bpc = "done" /\ hasContainer) =>
        /\ ~loaded.threw
        /\ loaded.value.json = "array"
        /\ IF protocol = "file:"
           THEN /\ netFetches = 0
                /\ loaded.value = IF teamData.json = "array" THEN teamData ELSE EmptyList
           ELSE /\ netFetches = 1
                /\ loaded.value =
                      IF /\ ~response.err
                         /\ response.status >= 200
                         /\ response.status <= 299
                         /\ response.body # Unparseable
                         /\ response.body.json = "array"
                      THEN response.body
                      ELSE EmptyList
        /\ Len(cards) = Len(loaded.value.items)
        /\ ~renderThrew

\* row i is over: skipped as incomplete, failed, or appended
Finished(i) == i \in DOMAIN rowOutcome

\* C9: a request made for a row is made only when every earlier row is
\* over; the two metadata requests of a row are made together, after its
\* identifier is resolved and for that identifier; a row is appended only
\* when both have succeeded, and a row one of whose requests was rejected
\* is skipped.
C9_RowsOneAfterAnother ==
    /\ \A f \in DOMAIN fetches :
          \A j \in 1..(fetches[f].row - 1) : Finished(j)
    /\ \A i \in 1..Len(rows) :
          /\ <<"pokemon", i>> \in DOMAIN fetches <=> <<"species", i>> \in DOMAIN fetches
          /\ <<"pokemon", i>> \in DOMAIN fetches =>
                /\ i \in DOMAIN identifiers
                /\ fetches[<<"pokemon", i>>].origin = PokemonUrl(identifiers[i])
                /\ fetches[<<"species", i>>].origin = SpeciesUrl(identifiers[i])
          /\ (Finished(i) /\ rowOutcome[i] = "appended") =>
                /\ fetches[<<"pokemon", i>>].state = "resolved"
                /\ fetches[<<"species", i>>].state = "resolved"
          /\ (Finished(i) /\ RowRejected(i)) => rowOutcome[i] = "failed"
          /\ (~Finished(i) /\ i # idx) =>
                /\ i \notin DOMAIN identifiers
                /\ \A f \in DOMAIN fetches : fetches[f].row # i

\* both requests of a later row are outstanding at once, the earlier rows
\* being over
C9_Witness ==
    \E i \in 2..Len(rows) :
        /\ <<"pokemon", i>> \in DOMAIN fetches
        /\ fetches[<<"pokemon", i>>].state = "pending"
        /\ fetches[<<"species", i>>].state = "pending"
        /\ rowOutcome[1] \in {"appended", "failed"}

\* C10: when every request is eventually answered, by a response or by a
\* connection error, the run of a non-empty input terminates: every row is
\* appended or skipped, main is past the output step and no fetchJson call
\* is pending.
C10_RunTerminates == <>Terminated
====
